---- MODULE Spec2Model ----
(***************************************************************************)
(* The chatbot tutorial notebook (docs/docs/tutorials/chatbot.ipynb):      *)
(* the session store and get_session_history, the message-history wrapper  *)
(* around the model and around the truncating chain, filter_messages, and  *)
(* the streaming loop.                                                     *)
(*                                                                         *)
(* A message is a record [type, content, id].  content is a sequence of    *)
(* tokens; id stands for the identity of the Python object.                *)
(* A ChatMessageHistory object is a reference into heap; store maps        *)
(* session ids to such references, as the Python dict maps keys to         *)
(* objects.                                                                *)
(***************************************************************************)
EXTENDS Integers, Sequences, FiniteSets, TLC

VARIABLES
    store,            \* the dict `store`: session id -> history object
    heap,             \* history object -> its .messages list
    serial,           \* identity given to the next message object created
    calls,            \* number of calls made so far
    op,               \* the call that ran last
    cur_session,      \* config["configurable"]["session_id"] of that call
    ret,              \* the object get_session_history returned in that call
    input,            \* the messages passed to that call
    loaded,           \* the history messages the wrapper loaded
    chain_input,      \* the message list handed to the wrapped runnable
    prompt_messages,  \* the `messages` reaching the prompt template
    model_input,      \* the message list the model received
    response,         \* the message the call returned
    log,              \* per session id: messages sent and received under it
    forgotten,        \* per session id: messages truncation has dropped
    pc,               \* "idle", or "streaming" inside the for loop
    yielded,          \* fragments the running stream has yielded
    out,              \* what the streaming cell has printed
    fm_messages,      \* filter_messages: argument messages
    fm_k,             \* filter_messages: argument k
    fm_result,        \* filter_messages: returned list
    fm_called,        \* whether filter_messages has been called
    t_pc,             \* per thread: its place in get_session_history
    t_sid,            \* per thread: the session_id it was called with
    t_hist,           \* per thread: the history object it was returned
    t_sent            \* per thread: messages it added through that object

vars == <<store, heap, serial, calls, op, cur_session, ret, input, loaded,
          chain_input, prompt_messages, model_input, response, log, forgotten,
          pc, yielded, out, fm_messages, fm_k, fm_result, fm_called,
          t_pc, t_sid, t_hist, t_sent>>

wrapperVars == <<store, heap, serial, calls, op, cur_session, ret, input,
                 loaded, chain_input, prompt_messages, model_input, response,
                 log, forgotten>>
streamVars == <<pc, yielded, out>>
filterVars == <<fm_messages, fm_k, fm_result, fm_called>>
threadVars == <<t_pc, t_sid, t_hist, t_sent>>

----------------------------------------------------------------------------
(* Bounds *)

MaxCalls == 3       \* calls in one behaviour
MaxInputLen == 1    \* length of a short input list
MaxStreams == 2     \* stream calls in one behaviour of SpecStream
MaxChunks == 2      \* fragments one stream yields
MaxLen == 4         \* length of the list given to filter_messages alone
MaxK == 4           \* window size given to filter_messages alone

(* Program constants *)

K == 10             \* the default k of filter_messages
messages_len == 10  \* length of the notebook's list `messages`

SessionIds == {"abc2", "abc3"}
NoSession == "none"
Threads == {"t1", "t2"}

----------------------------------------------------------------------------
(* Helpers *)

Max(a, b) == IF a > b THEN a ELSE b
Min(a, b) == IF a < b THEN a ELSE b
Range(s) == {s[i] : i \in 1..Len(s)}

RECURSIVE Flatten(_)
Flatten(ss) == IF ss = <<>> THEN <<>> ELSE Head(ss) \o Flatten(Tail(ss))

(* Python's seq[start:] for any integer start: a negative start counts    *)
(* from the end, and both ends are clamped to the sequence.               *)
PySliceFrom(seq, start) ==
    LET n  == Len(seq)
        lo == IF start < 0 THEN Max(n + start, 0) ELSE Min(start, n)
    IN  SubSeq(seq, lo + 1, n)

(* Python's seq[:stop] for stop >= 0. *)
PySliceTo(seq, stop) == SubSeq(seq, 1, Min(stop, Len(seq)))

----------------------------------------------------------------------------
(* Messages *)

HumanMessage(id) == [type |-> "human", content |-> <<"text">>, id |-> id]
AIMessage(content, id) == [type |-> "ai", content |-> content, id |-> id]
SystemMessage == [type |-> "system", content |-> <<"You are a helpful assistant.">>, id |-> 0]

(* A list of n new message objects, turns alternating and the last one    *)
(* the human's, as in the notebook's `messages + [HumanMessage(...)]`.    *)
NewMessages(n, first) ==
    [i \in 1..n |->
        IF (n - i) % 2 = 0
        THEN HumanMessage(first + i - 1)
        ELSE AIMessage(<<"text">>, first + i - 1)]

InputLens == (0..MaxInputLen) \cup {messages_len + 1}

ReplyContent == <<"reply">>
Fragments == {<<>>, <<"tok">>}

----------------------------------------------------------------------------
(* filter_messages *)

filter_messages_first_k(messages, k) == PySliceTo(messages, k)

filter_messages_off_by_one(messages, k) == PySliceFrom(messages, -(k + 1))

filter_messages(messages, k) == PySliceFrom(messages, -k)

----------------------------------------------------------------------------
(* get_session_history: the new store, the new heap and the returned      *)
(* history object.                                                        *)

get_session_history_always_new(st, hp, session_id) ==
    LET hp1 == Append(hp, <<>>)
        st1 == [k \in DOMAIN st \cup {session_id} |->
                   IF k = session_id THEN Len(hp1) ELSE st[k]]
    IN  [store |-> st1, heap |-> hp1, ret |-> st1[session_id]]

get_session_history_shared(st, hp, session_id) ==
    LET miss == session_id \notin DOMAIN st
        hp1  == IF miss /\ hp = <<>> THEN Append(hp, <<>>) ELSE hp
        st1  == IF miss THEN st @@ (session_id :> 1) ELSE st
    IN  [store |-> st1, heap |-> hp1, ret |-> st1[session_id]]

get_session_history_reset_store(st, hp, session_id) ==
    LET miss == session_id \notin DOMAIN st
        hp1  == IF miss THEN Append(hp, <<>>) ELSE hp
        st1  == IF miss THEN (session_id :> Len(hp1)) ELSE st
    IN  [store |-> st1, heap |-> hp1, ret |-> st1[session_id]]

get_session_history_detached(st, hp, session_id) ==
    LET miss == session_id \notin DOMAIN st
        hp1  == IF miss THEN Append(hp, <<>>) ELSE hp
        st1  == IF miss THEN st @@ (session_id :> Len(hp1)) ELSE st
        hp2  == Append(hp1, hp1[st1[session_id]])
    IN  [store |-> st1, heap |-> hp2, ret |-> Len(hp2)]

get_session_history_trimmed(st, hp, session_id) ==
    LET miss == session_id \notin DOMAIN st
        hp1  == IF miss THEN Append(hp, <<>>)
                ELSE [hp EXCEPT ![st[session_id]] = filter_messages(@, K)]
        st1  == IF miss THEN st @@ (session_id :> Len(hp1)) ELSE st
    IN  [store |-> st1, heap |-> hp1, ret |-> st1[session_id]]

get_session_history(st, hp, session_id) ==
    LET miss == session_id \notin DOMAIN st
        hp1  == IF miss THEN Append(hp, <<>>) ELSE hp
        st1  == IF miss THEN st @@ (session_id :> Len(hp1)) ELSE st
    IN  [store |-> st1, heap |-> hp1, ret |-> st1[session_id]]

----------------------------------------------------------------------------
(* The chains *)

(* ChatPromptTemplate: the system message, then the `messages` placeholder *)
prompt(messages) == <<SystemMessage>> \o messages

(* RunnablePassthrough.assign(messages=lambda x: filter_messages(x["messages"])) *)
assign_messages(messages) == filter_messages(messages, K)

(* RunnableWithMessageHistory: messages loaded from the history object,   *)
(* the list handed on, and the history after the run has ended.           *)
history_messages(hp, hist) == hp[hist]
enter_history(hp, hist, msgs) == history_messages(hp, hist) \o msgs
exit_history(hp, hist, msgs, reply) ==
    [hp EXCEPT ![hist] = @ \o msgs \o <<reply>>]

(* AIMessageChunk addition: the contents concatenated. *)
merge_chunks(chunks, id) ==
    AIMessage(Flatten([i \in 1..Len(chunks) |-> chunks[i].content]), id)

(* print(r.content, end="|") *)
print_fragment_no_end(stdout, r) == stdout \o r.content

print_fragment(stdout, r) == stdout \o r.content \o <<"|">>

----------------------------------------------------------------------------
Init ==
    /\ store = <<>>
    /\ heap = <<>>
    /\ serial = 1
    /\ calls = 0
    /\ op = "none"
    /\ cur_session = NoSession
    /\ ret = 0
    /\ input = <<>>
    /\ loaded = <<>>
    /\ chain_input = <<>>
    /\ prompt_messages = <<>>
    /\ model_input = <<>>
    /\ response = SystemMessage
    /\ log = [s \in SessionIds |-> <<>>]
    /\ forgotten = [s \in SessionIds |-> {}]
    /\ pc = "idle"
    /\ yielded = <<>>
    /\ out = <<>>
    /\ fm_messages = <<>>
    /\ fm_k = 0
    /\ fm_result = <<>>
    /\ fm_called = FALSE
    /\ t_pc = [t \in Threads |-> "idle"]
    /\ t_sid = [t \in Threads |-> NoSession]
    /\ t_hist = [t \in Threads |-> 0]
    /\ t_sent = [t \in Threads |-> {}]

(* get_session_history(session_id), called on its own *)
GetSessionHistory(s) ==
    /\ pc = "idle"
    /\ calls < MaxCalls
    /\ LET g == get_session_history(store, heap, s)
       IN  /\ store' = g.store
           /\ heap' = g.heap
           /\ ret' = g.ret
    /\ calls' = calls + 1
    /\ op' = "get_session_history"
    /\ cur_session' = s
    /\ input' = <<>>
    /\ loaded' = <<>>
    /\ chain_input' = <<>>
    /\ prompt_messages' = <<>>
    /\ model_input' = <<>>
    /\ UNCHANGED <<serial, response, log, forgotten>>
    /\ UNCHANGED streamVars
    /\ UNCHANGED filterVars
    /\ UNCHANGED threadVars

(* RunnableWithMessageHistory(model, get_session_history).invoke(msgs, config) *)
Invoke(s, n) ==
    /\ pc = "idle"
    /\ calls < MaxCalls
    /\ LET msgs  == NewMessages(n, serial)
           reply == AIMessage(ReplyContent, serial + n)
           g     == get_session_history(store, heap, s)
           all   == enter_history(g.heap, g.ret, msgs)
       IN  /\ store' = g.store
           /\ ret' = g.ret
           /\ input' = msgs
           /\ loaded' = history_messages(g.heap, g.ret)
           /\ chain_input' = all
           /\ prompt_messages' = <<>>
           /\ model_input' = all
           /\ response' = reply
           /\ heap' = exit_history(g.heap, g.ret, msgs, reply)
           /\ log' = [log EXCEPT ![s] = @ \o msgs \o <<reply>>]
    /\ serial' = serial + n + 1
    /\ calls' = calls + 1
    /\ op' = "invoke"
    /\ cur_session' = s
    /\ UNCHANGED forgotten
    /\ UNCHANGED streamVars
    /\ UNCHANGED filterVars
    /\ UNCHANGED threadVars

(* RunnableWithMessageHistory(chain, get_session_history,                  *)
(*     input_messages_key="messages").invoke(...) with the truncating chain *)
TruncInvoke(s, n) ==
    /\ pc = "idle"
    /\ calls < MaxCalls
    /\ LET msgs  == NewMessages(n, serial)
           reply == AIMessage(ReplyContent, serial + n)
           g     == get_session_history(store, heap, s)
           all   == enter_history(g.heap, g.ret, msgs)
           kept  == assign_messages(all)
       IN  /\ store' = g.store
           /\ ret' = g.ret
           /\ input' = msgs
           /\ loaded' = history_messages(g.heap, g.ret)
           /\ chain_input' = all
           /\ prompt_messages' = kept
           /\ model_input' = prompt(kept)
           /\ response' = reply
           /\ heap' = exit_history(g.heap, g.ret, msgs, reply)
           /\ log' = [log EXCEPT ![s] = @ \o msgs \o <<reply>>]
           /\ forgotten' = [forgotten EXCEPT ![s] = @ \cup (Range(all) \ Range(kept))]
    /\ serial' = serial + n + 1
    /\ calls' = calls + 1
    /\ op' = "trunc_invoke"
    /\ cur_session' = s
    /\ UNCHANGED streamVars
    /\ UNCHANGED filterVars
    /\ UNCHANGED threadVars

(* chain.invoke({"messages": msgs, ...}) on the truncating chain, unwrapped *)
ChainInvoke(n) ==
    /\ pc = "idle"
    /\ calls < MaxCalls
    /\ LET msgs  == NewMessages(n, serial)
           reply == AIMessage(ReplyContent, serial + n)
           kept  == assign_messages(msgs)
       IN  /\ input' = msgs
           /\ chain_input' = msgs
           /\ prompt_messages' = kept
           /\ model_input' = prompt(kept)
           /\ response' = reply
    /\ loaded' = <<>>
    /\ ret' = 0
    /\ serial' = serial + n + 1
    /\ calls' = calls + 1
    /\ op' = "chain_invoke"
    /\ cur_session' = NoSession
    /\ UNCHANGED <<store, heap, log, forgotten>>
    /\ UNCHANGED streamVars
    /\ UNCHANGED filterVars
    /\ UNCHANGED threadVars

Next ==
    \/ \E s \in SessionIds : GetSessionHistory(s)
    \/ \E s \in SessionIds, n \in InputLens : Invoke(s, n)
    \/ \E s \in SessionIds, n \in InputLens : TruncInvoke(s, n)
    \/ \E n \in InputLens : ChainInvoke(n)

Spec == Init /\ [][Next]_vars

----------------------------------------------------------------------------
(* for r in with_message_history.stream(...): print(r.content, end="|")   *)

(* The call of .stream and the first pull: the history is looked up and   *)
(* loaded, the truncating chain runs up to the model.                     *)
StreamStart(s, n) ==
    /\ pc = "idle"
    /\ calls < MaxStreams
    /\ LET msgs == NewMessages(n, serial)
           g    == get_session_history(store, heap, s)
           all  == enter_history(g.heap, g.ret, msgs)
           kept == assign_messages(all)
       IN  /\ store' = g.store
           /\ heap' = g.heap
           /\ ret' = g.ret
           /\ input' = msgs
           /\ loaded' = history_messages(g.heap, g.ret)
           /\ chain_input' = all
           /\ prompt_messages' = kept
           /\ model_input' = prompt(kept)
           /\ forgotten' = [forgotten EXCEPT ![s] = @ \cup (Range(all) \ Range(kept))]
    /\ serial' = serial + n
    /\ op' = "stream"
    /\ cur_session' = s
    /\ pc' = "streaming"
    /\ yielded' = <<>>
    /\ out' = <<>>
    /\ UNCHANGED <<calls, response, log>>
    /\ UNCHANGED filterVars
    /\ UNCHANGED threadVars

(* One iteration of the loop: the stream yields r, the body prints it. *)
StreamYield(content) ==
    /\ pc = "streaming"
    /\ Len(yielded) < MaxChunks
    /\ LET r == AIMessage(content, serial)
       IN  /\ yielded' = Append(yielded, r)
           /\ out' = print_fragment(out, r)
    /\ UNCHANGED pc
    /\ UNCHANGED wrapperVars
    /\ UNCHANGED filterVars
    /\ UNCHANGED threadVars

(* The stream is exhausted: the run ends, the wrapper saves the input     *)
(* messages and the whole reply, the loop is left.                        *)
StreamEnd ==
    /\ pc = "streaming"
    /\ Len(yielded) >= 1
    /\ LET reply == merge_chunks(yielded, serial)
       IN  /\ response' = reply
           /\ heap' = exit_history(heap, ret, input, reply)
           /\ log' = [log EXCEPT ![cur_session] = @ \o input \o <<reply>>]
    /\ serial' = serial + 1
    /\ calls' = calls + 1
    /\ pc' = "idle"
    /\ UNCHANGED <<store, op, cur_session, ret, input, loaded, chain_input,
                   prompt_messages, model_input, forgotten, yielded, out>>
    /\ UNCHANGED filterVars
    /\ UNCHANGED threadVars

StreamInputLens == 1..MaxInputLen

NextStream ==
    \/ \E s \in SessionIds, n \in StreamInputLens : StreamStart(s, n)
    \/ \E content \in Fragments : StreamYield(content)
    \/ StreamEnd

SpecStream == Init /\ [][NextStream]_vars

----------------------------------------------------------------------------
(* filter_messages(messages, k) called on its own *)

MessageLists ==
    UNION {[1..n -> {HumanMessage(1), AIMessage(<<"text">>, 2)}] : n \in 0..MaxLen}

FilterCall(messages, k) ==
    /\ fm_messages' = messages
    /\ fm_k' = k
    /\ fm_result' = filter_messages(messages, k)
    /\ fm_called' = TRUE
    /\ UNCHANGED wrapperVars
    /\ UNCHANGED streamVars
    /\ UNCHANGED threadVars

NextFilter == \E messages \in MessageLists, k \in 0..MaxK : FilterCall(messages, k)

SpecFilter == Init /\ [][NextFilter]_vars

----------------------------------------------------------------------------
(* Properties *)

(* The history stored under session id s: the messages of store[s], and   *)
(* no messages when s is not a key.                                       *)
Hist(s) == IF s \in DOMAIN store THEN heap[store[s]] ELSE <<>>

(* The trailing k elements of s, all of s when it has fewer than k. *)
TrailingK(s, k) ==
    IF Len(s) < k THEN s ELSE SubSeq(s, Len(s) - k + 1, Len(s))

(* A step that is a completed with_message_history.invoke *)
WrappedStep == calls' = calls + 1 /\ op' \in {"invoke", "trunc_invoke"}

(* C1: for every list and every k >= 0, filter_messages(messages, k)      *)
(* returns the trailing k elements in their order, or the whole list when *)
(* it has fewer than k elements.                                          *)
C1_FilterTrailingK ==
    fm_called => fm_result = TrailingK(fm_messages, fm_k)

(* The same for k >= 1 only. *)
FilterTrailingKPositive ==
    (fm_called /\ fm_k >= 1) => fm_result = TrailingK(fm_messages, fm_k)

(* C2: get_session_history(session_id) is a lookup-or-create: for a key   *)
(* of store it returns the history stored under it, otherwise it inserts  *)
(* a new empty history under the key and returns that; after any call the *)
(* id is a key of store and the returned object is store[session_id].     *)
C2_LookupOrCreate ==
    /\ [](op \in {"get_session_history", "invoke", "trunc_invoke"} =>
             cur_session \in DOMAIN store /\ ret = store[cur_session])
    /\ [][(calls' = calls + 1 /\ op' = "get_session_history") =>
             LET s == cur_session' IN
             /\ s \in DOMAIN store =>
                   /\ ret' = store[s]
                   /\ heap'[ret'] = heap[store[s]]
             /\ s \notin DOMAIN store =>
                   /\ DOMAIN store' = DOMAIN store \cup {s}
                   /\ ret' \notin DOMAIN heap
                   /\ heap'[ret'] = <<>>]_vars

C2_Witness ==
    /\ op = "get_session_history"
    /\ calls >= 2
    /\ ret = store[cur_session]
    /\ heap[ret] # <<>>

(* C3: sessions are isolated: the history stored under a session id holds *)
(* only messages of invocations made under that id, the model is shown no *)
(* message of another session, and the first invocation under an unused   *)
(* id starts with no history.                                             *)
C3_SessionsIsolated ==
    /\ [](\A s \in DOMAIN store : Range(heap[store[s]]) \subseteq Range(log[s]))
    /\ [](op \in {"invoke", "trunc_invoke"} =>
             \A t \in SessionIds \ {cur_session} :
                 Range(model_input) \cap Range(log[t]) = {})
    /\ [][(WrappedStep /\ log[cur_session'] = <<>>) =>
             /\ loaded' = <<>>
             /\ Range(model_input') \subseteq Range(input') \cup {SystemMessage}]_vars

C3_Witness ==
    /\ op = "invoke"
    /\ cur_session = "abc3"
    /\ log["abc2"] # <<>>
    /\ loaded = <<>>
    /\ input # <<>>
    /\ model_input = input
    /\ heap[store["abc3"]] = log["abc3"]

(* C4: a conversation can be resumed: an invocation under another session *)
(* id leaves the history stored under A unchanged, and the next           *)
(* invocation under A loads every message recorded under A before.        *)
C4_Resume ==
    [][WrappedStep =>
          /\ \A a \in DOMAIN store \ {cur_session'} :
                /\ a \in DOMAIN store'
                /\ store'[a] = store[a]
                /\ heap'[store'[a]] = heap[store[a]]
          /\ loaded' = log[cur_session']
          /\ op' = "invoke" =>
                SubSeq(model_input', 1, Len(log[cur_session'])) = log[cur_session']]_vars

C4_Witness ==
    /\ op = "invoke"
    /\ cur_session = "abc2"
    /\ loaded # <<>>
    /\ log["abc3"] # <<>>
    /\ loaded[1].id < log["abc3"][1].id
    /\ log["abc3"][1].id < response.id
    /\ SubSeq(model_input, 1, Len(loaded)) = loaded

(* C5: every completed with_message_history.invoke under s appends to the *)
(* history stored under s the input messages, then the reply; with one    *)
(* new human message that is two more messages, the human's then the AI's.*)
C5_KeepsTrack ==
    [][WrappedStep =>
          LET s   == cur_session'
              new == heap'[store'[s]]
          IN  /\ new = Hist(s) \o input' \o <<response'>>
              /\ Len(input') = 1 =>
                    /\ Len(new) = Len(Hist(s)) + 2
                    /\ new[Len(new) - 1].type = "human"
                    /\ new[Len(new)].type = "ai"]_vars

C5_Witness ==
    /\ op = "trunc_invoke"
    /\ Len(input) = 1
    /\ Len(loaded) = messages_len + 2
    /\ Len(heap[store[cur_session]]) = messages_len + 4

(* C6: on every with_message_history.invoke under s the list handed to    *)
(* the wrapped runnable is the history stored under s, in stored order,   *)
(* followed by the new input, so what an earlier turn of s said is in it. *)
C6_LoadsStored ==
    [][WrappedStep =>
          LET s == cur_session'
          IN  /\ chain_input' = Hist(s) \o input'
              /\ op' = "invoke" => model_input' = chain_input'
              /\ Range(log[s]) \subseteq Range(chain_input')]_vars

C6_Witness ==
    /\ op = "invoke"
    /\ loaded # <<>>
    /\ input # <<>>
    /\ loaded[1].type = "human"
    /\ model_input = loaded \o input

(* C7: in the history-wrapped truncating chain truncation is applied to   *)
(* the stored history followed by the new input, before the prompt is     *)
(* assembled: the model receives the system message followed by the last  *)
(* 10 messages of that list (all of them when there are fewer), and the   *)
(* system message is never cut.                                           *)
C7_TruncateAfterLoad ==
    [][(calls' = calls + 1 /\ op' = "trunc_invoke") =>
          LET all == Hist(cur_session') \o input'
          IN  /\ prompt_messages' = TrailingK(all, K)
              /\ model_input' = <<SystemMessage>> \o TrailingK(all, K)
              /\ model_input'[1] = SystemMessage]_vars

C7_Witness ==
    /\ op = "trunc_invoke"
    /\ loaded # <<>>
    /\ input # <<>>
    /\ Len(chain_input) > K
    /\ Len(model_input) = K + 1
    /\ model_input[1] = SystemMessage
    /\ model_input[K + 1] = input[Len(input)]

(* C8: on every invocation of the truncating chain, wrapped or not, at    *)
(* most 10 conversation messages reach the prompt template.               *)
C8_WindowBounded ==
    op \in {"trunc_invoke", "chain_invoke"} => Len(prompt_messages) <= K

C8_Witness ==
    /\ op = "trunc_invoke"
    /\ calls = MaxCalls
    /\ Len(chain_input) > 2 * K
    /\ Len(prompt_messages) = K

(* C9: forgetting is monotone within a session: a message outside the     *)
(* window at one invocation of the wrapped truncating chain is outside it *)
(* at every later one, the window moves forward, a message more than 10   *)
(* positions from the end of history + input is not shown to the model    *)
(* and every message within the last 10 positions is.                     *)
C9_ForgettingMonotone ==
    [][(calls' = calls + 1 /\ op' = "trunc_invoke") =>
          LET s   == cur_session'
              all == chain_input'
              n   == Len(all)
          IN  /\ forgotten[s] \cap Range(model_input') = {}
              /\ forgotten[s] \subseteq forgotten'[s]
              /\ n > K => forgotten'[s] # forgotten[s]
              /\ \A p \in 1..n :
                    /\ p <= n - K => all[p] \notin Range(model_input')
                    /\ p > n - K => all[p] \in Range(model_input')]_vars

C9_Witness ==
    /\ op = "trunc_invoke"
    /\ calls = MaxCalls
    /\ Len(loaded) > 2 * K
    /\ Cardinality(forgotten[cur_session]) = Len(chain_input) - K
    /\ loaded[1] \in forgotten[cur_session]
    /\ loaded[1] \notin Range(model_input)

(* What the loop has printed after the fragments frs: each content        *)
(* followed by the separator, in order.                                   *)
Printed(frs) == Flatten([i \in 1..Len(frs) |-> frs[i].content \o <<"|">>])

(* C10: with_message_history.stream yields the reply as a finite ordered  *)
(* sequence of fragments, the loop prints each fragment's content         *)
(* followed by "|" in emission order, and when the stream is exhausted    *)
(* the history stored under s has been extended by the input messages and *)
(* the complete reply, as an invoke extends it.                           *)
C10_StreamLikeInvoke ==
    /\ [](op = "stream" => out = Printed(yielded))
    /\ [][(pc = "streaming" /\ pc' = "streaming") =>
             /\ Len(yielded') = Len(yielded) + 1
             /\ SubSeq(yielded', 1, Len(yielded)) = yielded
             /\ Hist(cur_session)' = Hist(cur_session)]_vars
    /\ [][(pc = "streaming" /\ pc' = "idle") =>
             LET s == cur_session
             IN  /\ response'.type = "ai"
                 /\ response'.content =
                       Flatten([i \in 1..Len(yielded) |-> yielded[i].content])
                 /\ Hist(s)' = Hist(s) \o input \o <<response'>>
                 /\ Hist(s) = loaded]_vars

C10_Witness ==
    /\ op = "stream"
    /\ pc = "idle"
    /\ Len(yielded) = MaxChunks
    /\ yielded[1].content = <<>>
    /\ out = <<"|", "tok", "|">>
    /\ loaded # <<>>
    /\ Hist(cur_session) = loaded \o input \o <<response>>
    /\ response.content = <<"tok">>

----------------------------------------------------------------------------
(* The model and the chains called without the history wrapper *)

ModelInvoke_remembering(n) ==
    /\ pc = "idle"
    /\ calls < MaxCalls
    /\ LET msgs  == NewMessages(n, serial)
           reply == AIMessage(ReplyContent, serial + n)
       IN  /\ input' = msgs
           /\ chain_input' = msgs
           /\ model_input' = model_input \o msgs
           /\ response' = reply
    /\ prompt_messages' = <<>>
    /\ loaded' = <<>>
    /\ ret' = 0
    /\ serial' = serial + n + 1
    /\ calls' = calls + 1
    /\ op' = "model_invoke"
    /\ cur_session' = NoSession
    /\ UNCHANGED <<store, heap, log, forgotten>>
    /\ UNCHANGED streamVars
    /\ UNCHANGED filterVars
    /\ UNCHANGED threadVars

(* model.invoke(msgs) *)
ModelInvoke(n) ==
    /\ pc = "idle"
    /\ calls < MaxCalls
    /\ LET msgs  == NewMessages(n, serial)
           reply == AIMessage(ReplyContent, serial + n)
       IN  /\ input' = msgs
           /\ chain_input' = msgs
           /\ model_input' = msgs
           /\ response' = reply
    /\ prompt_messages' = <<>>
    /\ loaded' = <<>>
    /\ ret' = 0
    /\ serial' = serial + n + 1
    /\ calls' = calls + 1
    /\ op' = "model_invoke"
    /\ cur_session' = NoSession
    /\ UNCHANGED <<store, heap, log, forgotten>>
    /\ UNCHANGED streamVars
    /\ UNCHANGED filterVars
    /\ UNCHANGED threadVars

(* chain.invoke({"messages": msgs, ...}) with chain = prompt | model *)
PromptChainInvoke(n) ==
    /\ pc = "idle"
    /\ calls < MaxCalls
    /\ LET msgs  == NewMessages(n, serial)
           reply == AIMessage(ReplyContent, serial + n)
       IN  /\ input' = msgs
           /\ chain_input' = msgs
           /\ prompt_messages' = msgs
           /\ model_input' = prompt(msgs)
           /\ response' = reply
    /\ loaded' = <<>>
    /\ ret' = 0
    /\ serial' = serial + n + 1
    /\ calls' = calls + 1
    /\ op' = "prompt_chain_invoke"
    /\ cur_session' = NoSession
    /\ UNCHANGED <<store, heap, log, forgotten>>
    /\ UNCHANGED streamVars
    /\ UNCHANGED filterVars
    /\ UNCHANGED threadVars

NextStateless ==
    \/ \E s \in SessionIds, n \in InputLens : Invoke(s, n)
    \/ \E n \in InputLens : ModelInvoke(n)
    \/ \E n \in InputLens : PromptChainInvoke(n)
    \/ \E n \in InputLens : ChainInvoke(n)

SpecStateless == Init /\ [][NextStateless]_vars

(* A step that is a completed call of the model or of a chain that is not *)
(* wrapped in RunnableWithMessageHistory                                  *)
UnwrappedStep ==
    /\ calls' = calls + 1
    /\ op' \in {"model_invoke", "prompt_chain_invoke", "chain_invoke"}

(* Every message some history object holds *)
StoredMessages == UNION {Range(heap[h]) : h \in DOMAIN heap}

(* C11 as stated: model.invoke and chain.invoke, unwrapped, neither read  *)
(* nor modify store: the messages the model sees are exactly those passed *)
(* in the call, and store is unchanged afterwards.                        *)
C11_ExactlyPassed ==
    [][UnwrappedStep =>
          /\ model_input' = input'
          /\ store' = store
          /\ heap' = heap]_vars

(* C11 amended: unwrapped calls neither read nor modify store: the model  *)
(* sees no stored message; model.invoke shows it exactly the messages     *)
(* passed, a chain the prompt's system message followed by the messages   *)
(* passed (the last 10 of them in the truncating chain); store and every  *)
(* history are unchanged afterwards.                                      *)
C11_Stateless ==
    [][UnwrappedStep =>
          /\ store' = store
          /\ heap' = heap
          /\ Range(model_input') \cap StoredMessages = {}
          /\ op' = "model_invoke" => model_input' = input'
          /\ op' = "prompt_chain_invoke" =>
                model_input' = <<SystemMessage>> \o input'
          /\ op' = "chain_invoke" =>
                model_input' = <<SystemMessage>> \o TrailingK(input', K)]_vars

C11_Witness ==
    /\ op = "model_invoke"
    /\ calls >= 2
    /\ input # <<>>
    /\ model_input = input
    /\ \E s \in DOMAIN store : heap[store[s]] # <<>>
    /\ log["abc2"] # <<>>
    /\ log["abc2"][1].id < input[1].id

(* The history stored under session id s after the step *)
HistNext(s) == IF s \in DOMAIN store' THEN heap'[store'[s]] ELSE <<>>

(* C12: truncation affects only what the model sees, never what is        *)
(* stored: the list given to filter_messages is whole after the call, the *)
(* length of a session's stored history never decreases, the messages     *)
(* stored keep their content and order, and the stored history grows past *)
(* the window.                                                            *)
C12_StoredNeverTruncated ==
    [][/\ \A s \in DOMAIN store :
             /\ s \in DOMAIN store'
             /\ Len(HistNext(s)) >= Len(Hist(s))
             /\ SubSeq(HistNext(s), 1, Len(Hist(s))) = Hist(s)
       /\ (calls' = calls + 1 /\ op' = "trunc_invoke") =>
             /\ chain_input' = Hist(cur_session') \o input'
             /\ Len(HistNext(cur_session')) = Len(chain_input') + 1]_vars

C12_Witness ==
    /\ op = "trunc_invoke"
    /\ calls = MaxCalls
    /\ Len(loaded) > K
    /\ Len(prompt_messages) = K
    /\ Len(chain_input) = Len(loaded) + Len(input)
    /\ Hist(cur_session) = loaded \o input \o <<response>>
    /\ Len(Hist(cur_session)) > 2 * K

(* C13: the newest input message always reaches the model: on every       *)
(* invocation of the truncating chain with a non-empty input, the last    *)
(* input message is the last conversation message passed to the prompt,   *)
(* however long the stored history is.                                    *)
C13_NewestReachesModel ==
    (op \in {"trunc_invoke", "chain_invoke"} /\ input # <<>>) =>
        /\ prompt_messages # <<>>
        /\ prompt_messages[Len(prompt_messages)] = input[Len(input)]
        /\ model_input[Len(model_input)] = input[Len(input)]

C13_Witness ==
    /\ op = "trunc_invoke"
    /\ Len(loaded) > K
    /\ Len(input) = 1
    /\ Len(prompt_messages) = K
    /\ prompt_messages[K] = input[1]
    /\ input[1].type = "human"

(* C14: store only grows and entries are never replaced: the key set      *)
(* never shrinks, a key stays bound to the same history object, a         *)
(* get_session_history call for an existing key leaves store and the      *)
(* histories unchanged, and a call for a new key changes no other key's   *)
(* entry.                                                                 *)
C14_StoreOnlyGrows ==
    [][/\ DOMAIN store \subseteq DOMAIN store'
       /\ \A k \in DOMAIN store : store'[k] = store[k]
       /\ (calls' = calls + 1 /\ op' = "get_session_history") =>
             /\ cur_session' \in DOMAIN store =>
                   /\ store' = store
                   /\ heap' = heap
             /\ cur_session' \notin DOMAIN store =>
                   /\ DOMAIN store' = DOMAIN store \cup {cur_session'}
                   /\ \A k \in DOMAIN store : heap'[store'[k]] = heap[store[k]]]_vars

C14_Witness ==
    /\ op = "get_session_history"
    /\ calls = MaxCalls
    /\ DOMAIN store = SessionIds
    /\ Len(heap) = 2
    /\ store["abc2"] # store["abc3"]
    /\ heap[ret] # <<>>

----------------------------------------------------------------------------
(* get_session_history called by two threads at once: a thread may be     *)
(* suspended between any two of the function's statements.                *)

(* def get_session_history(session_id): the call is entered *)
GshCall(t, s) ==
    /\ t_pc[t] = "idle"
    /\ calls < MaxCalls
    /\ t_pc' = [t_pc EXCEPT ![t] = "test"]
    /\ t_sid' = [t_sid EXCEPT ![t] = s]
    /\ calls' = calls + 1
    /\ op' = "get_session_history"
    /\ cur_session' = s
    /\ UNCHANGED <<store, heap, serial, ret, input, loaded, chain_input,
                   prompt_messages, model_input, response, log, forgotten>>
    /\ UNCHANGED <<t_hist, t_sent>>
    /\ UNCHANGED streamVars
    /\ UNCHANGED filterVars

(* if session_id not in store: *)
GshTest(t) ==
    /\ t_pc[t] = "test"
    /\ t_pc' = [t_pc EXCEPT ![t] =
                   IF t_sid[t] \notin DOMAIN store THEN "insert" ELSE "return"]
    /\ UNCHANGED <<t_sid, t_hist, t_sent>>
    /\ UNCHANGED wrapperVars
    /\ UNCHANGED streamVars
    /\ UNCHANGED filterVars

(* store[session_id] = ChatMessageHistory(): the key is bound to the new  *)
(* object whether or not it has been bound since the test.                *)
GshInsert(t) ==
    /\ t_pc[t] = "insert"
    /\ heap' = Append(heap, <<>>)
    /\ store' = [k \in DOMAIN store \cup {t_sid[t]} |->
                    IF k = t_sid[t] THEN Len(heap) + 1 ELSE store[k]]
    /\ t_pc' = [t_pc EXCEPT ![t] = "return"]
    /\ UNCHANGED <<serial, calls, op, cur_session, ret, input, loaded,
                   chain_input, prompt_messages, model_input, response, log,
                   forgotten>>
    /\ UNCHANGED <<t_sid, t_hist, t_sent>>
    /\ UNCHANGED streamVars
    /\ UNCHANGED filterVars

(* return store[session_id] *)
GshReturn(t) ==
    /\ t_pc[t] = "return"
    /\ t_hist' = [t_hist EXCEPT ![t] = store[t_sid[t]]]
    /\ ret' = store[t_sid[t]]
    /\ t_pc' = [t_pc EXCEPT ![t] = "holding"]
    /\ UNCHANGED <<store, heap, serial, calls, op, cur_session, input, loaded,
                   chain_input, prompt_messages, model_input, response, log,
                   forgotten>>
    /\ UNCHANGED <<t_sid, t_sent>>
    /\ UNCHANGED streamVars
    /\ UNCHANGED filterVars

(* The caller records a message through the history it was returned. *)
AddMessage(t) ==
    /\ t_pc[t] = "holding"
    /\ LET m == HumanMessage(serial)
       IN  /\ heap' = [heap EXCEPT ![t_hist[t]] = Append(@, m)]
           /\ t_sent' = [t_sent EXCEPT ![t] = @ \cup {<<t_sid[t], m>>}]
    /\ serial' = serial + 1
    /\ t_pc' = [t_pc EXCEPT ![t] = "idle"]
    /\ UNCHANGED <<store, calls, op, cur_session, ret, input, loaded,
                   chain_input, prompt_messages, model_input, response, log,
                   forgotten>>
    /\ UNCHANGED <<t_sid, t_hist>>
    /\ UNCHANGED streamVars
    /\ UNCHANGED filterVars

NextThreads ==
    \/ \E t \in Threads, s \in SessionIds : GshCall(t, s)
    \/ \E t \in Threads : GshTest(t)
    \/ \E t \in Threads : GshInsert(t)
    \/ \E t \in Threads : GshReturn(t)
    \/ \E t \in Threads : AddMessage(t)

SpecThreads == Init /\ [][NextThreads]_vars

====
